---- MODULE Spec2Model ----
(***************************************************************************)
(* A model of the repository state engine of gitwapp: the status          *)
(* computation (clean/dirty, ahead/behind), the mutation handlers          *)
(* (stage, unstage, stage-all, unstage-all, commit, push, pull) and the    *)
(* file-content accessor with its path-containment check.                  *)
(*                                                                         *)
(* These specifications share the variables:                               *)
(*   SpecGraph  the commit graph of a working copy A, its origin R and a   *)
(*              second clone B: ahead/behind counting;                     *)
(*   SpecIndex  HEAD tree, index and worktree of one working copy: the     *)
(*              status entries and the stage/unstage/commit handlers;      *)
(*   SpecFile   handleGetFile over a small filesystem;                     *)
(*   SpecSync   handlePush and handlePull between A, R and the clone B;    *)
(*   SpecRoutes the router of /internal/api and its middleware;            *)
(*   SpecRepos  the add and remove requests on the registry, one           *)
(*              goroutine each, interleaved at the store's load and save;  *)
(*   SpecUsers  the user requests on the user store, likewise;             *)
(*   SpecRace   concurrent stage, unstage and commit requests on the       *)
(*              index file of one working copy;                            *)
(*   SpecResolve the engine requests resolving ids against a registry      *)
(*              that remove requests shrink;                               *)
(*   SpecWalk   the commit iterator of countCommitsBetween, step by step   *)
(*              (SpecWalkFair: with the walk's goroutine kept running).    *)
(* The calls into go-git and the git command line are modelled by what     *)
(* these do (Worktree.Status, Worktree.Add, Worktree.Commit, the preorder  *)
(* commit iterator behind Repository.Log, git reset, git add -A).          *)
(***************************************************************************)
EXTENDS Integers, Sequences, FiniteSets, TLC

\* ------------------------------------------------------------------ bounds
\* commits that may exist in the commit graph
MaxCommits == 5
\* commits that may exist when the engine still serves commit requests
MaxEngineCommits == 2
\* distinct non-empty contents a file may have (0 stands for "no file")
MaxContent == 2
\* segments of the file parameter of a file request
MaxFileSegs == 3
\* commits that may exist while pushes and pulls are served
MaxSyncCommits == 3
\* request goroutines that may run against the registry store at once
MaxRequests == 3

VARIABLES
    \* --- commit graph (git objects and refs) -----------------------------
    parents,     \* commit id -> sequence of parent commit ids
    ncommits,    \* number of commit objects created so far (ids 1..ncommits)
    headA,       \* commit of A's current branch, 0 when HEAD does not resolve
    trackA,      \* A's refs/remotes/origin/<branch>, 0 when the ref is absent
    headR,       \* the branch head in the origin repository R, 0 without origin
    \* --- working copy A --------------------------------------------------
    headTree,    \* file -> content recorded by A's HEAD commit
    index,       \* file -> content in A's index
    worktree,    \* file -> content on disk in A's worktree
    \* --- requests and responses ------------------------------------------
    st,          \* result of the last status request, NoStatus when stale
    log,         \* the last engine requests served since the last outside change
    \* --- file accessor ---------------------------------------------------
    repoPath,    \* the registered path of the repository (clean, absolute)
    exists,      \* the regular files that exist on the filesystem
    fileReq,     \* the last file request
    fileResp,    \* the response to it
    \* --- push and pull ---------------------------------------------------
    commitTree,  \* commit id -> the tree the commit records
    syncResp,    \* the response to the last push or pull request
    \* --- router ----------------------------------------------------------
    routed,      \* the last http request and what the router did with it
    \* --- registry store and its requests ---------------------------------
    repoStore,   \* repositories.json: the sequence of repository records
    userStore,   \* users.json: the sequence of user records
    procs,       \* request goroutine -> its request, position and response
    nextId,      \* number of uuids handed out so far
    \* --- index file of the working copy ----------------------------------
    lock,        \* holder of .git/index.lock, 0 when the lock file is absent
    \* --- resolution of repository ids -----------------------------------
    lookup,      \* the last engine request and the capability call it made
    \* --- the commit iterator of countCommitsBetween ----------------------
    walk         \* the walk in progress: its ends, stack, seen set and count

graphVars == <<parents, ncommits, headA, trackA, headR>>
copyVars == <<headTree, index, worktree>>
fileVars == <<repoPath, exists, fileReq, fileResp>>
syncVars == <<commitTree, syncResp>>
adminVars == <<repoStore, userStore, procs, nextId>>
extVars == <<syncVars, routed, adminVars, lock, lookup, walk>>
vars == <<parents, ncommits, headA, trackA, headR, headTree, index, worktree,
          st, log, repoPath, exists, fileReq, fileResp, commitTree, syncResp,
          routed, repoStore, userStore, procs, nextId, lock, lookup,
          walk>>

\* ------------------------------------------------------------ basic values
Commits == 1..MaxCommits
Files == {"a", "b"}
Contents == 0..MaxContent
Trees == [Files -> Contents]
EmptyTree == [f \in Files |-> 0]
SeedTree == [f \in Files |-> IF f = "a" THEN 1 ELSE 0]
Msgs == {"", "m"}
\* the registry holds one repository; "zz" is an id that is not registered
Registry == {"r1"}
RepoIds == {"r1", "zz"}
NoStatus == [ok |-> FALSE, fresh |-> FALSE]
NoRequest == [made |-> FALSE, id |-> "", file |-> <<>>]
NoResponse == [code |-> 0, body |-> "", read |-> FALSE]
\* no error; no push or pull served; no request routed; no engine request
\* resolved; no walk started; a goroutine at rest
NoErr == [wrap |-> "", cause |-> ""]
NoSync == [op |-> "", code |-> 0, err |-> NoErr, contacted |-> FALSE]
NoRouted == [made |-> FALSE, method |-> "", path |-> "", id |-> "",
             remote |-> "", handler |-> "", code |-> 0]
NoLookup == [op |-> "", id |-> <<>>, arg |-> "", code |-> 0, call |-> <<>>]
NoWalk == [on |-> "idle", from |-> 0, to |-> 0, stack |-> <<>>, seen |-> {},
           count |-> 0, visits |-> [c \in Commits |-> 0]]
Procs == 1..MaxRequests
Idle == [kind |-> "", path |-> "", id |-> <<>>, name |-> "", pw |-> "",
         phase |-> "idle", snap |-> <<>>, code |-> 0, body |-> <<>>]

\* http status codes used by the handlers
StatusOK == 200
StatusBadRequest == 400
StatusNotFound == 404
StatusInternalServerError == 500

\* git's status codes (go-git StatusCode)
Unmodified == 32
Untracked == 63
Modified == 77
Added == 65
Deleted == 68

\* -------------------------------------------------------------- commit graph
\* all commits reachable from c through parent links, c included
RECURSIVE ReachFrom(_, _)
ReachFrom(frontier, seen) ==
    IF frontier = {} THEN seen
    ELSE LET next == UNION {{parents[c][i] : i \in 1..Len(parents[c])} : c \in frontier}
         IN ReachFrom(next \ (seen \cup frontier), seen \cup frontier)

Reach(c) == IF c = 0 THEN {} ELSE ReachFrom({c}, {})

IsAncestor(a, b) == a \in Reach(b)

\* The walk of countCommitsBetween: Repository.Log yields the commits in
\* preorder (the start, then depth first along the parent lists, every commit
\* once); the callback stops the walk at 'to' and counts every commit before.
\* stack is the iterator's stack of pending parent lists, top at the end.
RECURSIVE PreorderCount(_, _, _, _)
PreorderCount(stack, seen, to, count) ==
    IF stack = <<>> THEN count
    ELSE LET top == stack[Len(stack)]
             below == SubSeq(stack, 1, Len(stack) - 1)
         IN IF top = <<>> THEN PreorderCount(below, seen, to, count)
            ELSE LET c == Head(top)
                     rest == Append(below, Tail(top))
                 IN IF c \in seen THEN PreorderCount(rest, seen, to, count)
                    ELSE IF c = to THEN count
                    ELSE PreorderCount(
                             IF parents[c] = <<>> THEN rest ELSE Append(rest, parents[c]),
                             seen \cup {c}, to, count + 1)

countCommitsBetween(from, to) ==
    IF from = to THEN 0 ELSE PreorderCount(<< <<from>> >>, {}, to, 0)

\* ------------------------------------------------------------ status entries
\* merkletrie change between two versions of a path
Change(old, new) ==
    IF old = new THEN "none"
    ELSE IF old = 0 THEN "insert"
    ELSE IF new = 0 THEN "delete"
    ELSE "modify"

StagingCode(ch) ==
    IF ch = "insert" THEN Added ELSE IF ch = "delete" THEN Deleted ELSE Modified

NoEntry == [has |-> FALSE, Staging |-> Unmodified, Worktree |-> Unmodified]
Entry(sc, wc) == [has |-> TRUE, Staging |-> sc, Worktree |-> wc]

\* (a slip: a path new in the worktree gets no entry)
FileStatus_SkipsUntracked(h, i, w) ==
    LET left == Change(h, i)
        right == Change(i, w)
    IN IF right = "insert" \/ (left = "none" /\ right = "none") THEN NoEntry
       ELSE IF left = "none" THEN Entry(Unmodified, IF right = "delete" THEN Deleted ELSE Modified)
       ELSE IF right = "none" THEN Entry(StagingCode(left), Unmodified)
       ELSE Entry(StagingCode(left), IF right = "delete" THEN Deleted ELSE Modified)

\* Worktree.Status for one path: first the index against HEAD (the entry gets
\* its staging code and worktree Unmodified), then the worktree against the
\* index (a fresh entry starts Untracked/Untracked and its staging becomes
\* Unmodified; an insert makes both axes Untracked).
FileStatus(h, i, w) ==
    LET left == Change(h, i)
        right == Change(i, w)
        afterLeft == IF left = "none"
                     THEN Entry(Untracked, Untracked)
                     ELSE Entry(StagingCode(left), Unmodified)
        base == IF afterLeft.Staging = Untracked
                THEN [afterLeft EXCEPT !.Staging = Unmodified]
                ELSE afterLeft
    IN IF left = "none" /\ right = "none" THEN NoEntry
       ELSE IF right = "none" THEN afterLeft
       ELSE IF right = "delete" THEN [base EXCEPT !.Worktree = Deleted]
       ELSE IF right = "insert" THEN Entry(Untracked, Untracked)
       ELSE [base EXCEPT !.Worktree = Modified]

StatusOf(h, i, w) == [f \in Files |-> FileStatus(h[f], i[f], w[f])]

\* Status.IsClean: no entry has an axis other than Unmodified
IsClean(s) ==
    \A f \in Files :
        s[f].has => (s[f].Worktree = Unmodified /\ s[f].Staging = Unmodified)

\* ---------------------------------------------------------------- GetStatus
\* (a slip: without a remote-tracking ref every local commit counts as ahead)
AheadBehind_NoRefCountsAll ==
    IF trackA # 0
    THEN [ahead |-> countCommitsBetween(headA, trackA),
          behind |-> countCommitsBetween(trackA, headA)]
    ELSE [ahead |-> countCommitsBetween(headA, 0), behind |-> 0]

\* the ahead/behind pair of GetStatus
AheadBehind ==
    IF trackA # 0
    THEN [ahead |-> countCommitsBetween(headA, trackA),
          behind |-> countCommitsBetween(trackA, headA)]
    ELSE [ahead |-> 0, behind |-> 0]

\* (a slip: the error of r.Head() is ignored)
GetStatus_HeadUnchecked ==
    [ok |-> TRUE, fresh |-> TRUE,
     Clean |-> IsClean(StatusOf(headTree, index, worktree)),
     Ahead |-> AheadBehind.ahead,
     Behind |-> AheadBehind.behind,
     Worktree |-> StatusOf(headTree, index, worktree)]

\* GetStatus: an error and no Status value when HEAD does not resolve
GetStatus ==
    IF headA = 0
    THEN [ok |-> FALSE, fresh |-> TRUE]
    ELSE [ok |-> TRUE, fresh |-> TRUE,
          Clean |-> IsClean(StatusOf(headTree, index, worktree)),
          Ahead |-> AheadBehind.ahead,
          Behind |-> AheadBehind.behind,
          Worktree |-> StatusOf(headTree, index, worktree)]

getRepoByID(id) == id \in Registry

\* (a slip: the status fetches from the origin before it counts)
handleRepoStatus_Fetches ==
    /\ \E id \in RepoIds :
          st' = IF getRepoByID(id) THEN GetStatus ELSE NoStatus
    /\ trackA' = headR
    /\ UNCHANGED <<parents, ncommits, headA, headR, copyVars, log, fileVars, extVars>>

\* handleRepoStatus: look the repository up, compute its status
handleRepoStatus ==
    /\ \E id \in RepoIds :
          st' = IF getRepoByID(id) THEN GetStatus ELSE NoStatus
    /\ UNCHANGED <<graphVars, copyVars, log, fileVars, extVars>>

\* ------------------------------------------------- SpecGraph: the commit graph
\* A is a clone of R at the first commit; or has no origin; or has no commit.
InitFile ==
    /\ repoPath = << <<"r">> >>
    /\ exists = {}
    /\ fileReq = NoRequest
    /\ fileResp = NoResponse

\* the parts of the state a specification does not use, at rest
InitSync ==
    /\ commitTree = [c \in Commits |-> EmptyTree]
    /\ syncResp = NoSync

InitRouter == routed = NoRouted

InitAdmin ==
    /\ repoStore = <<>>
    /\ userStore = <<>>
    /\ procs = [p \in Procs |-> Idle]
    /\ nextId = 0

InitExt ==
    /\ InitSync
    /\ InitRouter
    /\ InitAdmin
    /\ lock = 0
    /\ lookup = NoLookup
    /\ walk = NoWalk

InitGraph ==
    /\ parents = [c \in Commits |-> <<>>]
    /\ \/ ncommits = 1 /\ headA = 1 /\ trackA = 1 /\ headR = 1
       \/ ncommits = 1 /\ headA = 1 /\ trackA = 0 /\ headR = 0
       \/ ncommits = 0 /\ headA = 0 /\ trackA = 0 /\ headR = 0
    /\ headTree = (IF headA = 0 THEN EmptyTree ELSE SeedTree)
    /\ index = headTree
    /\ worktree = headTree
    /\ st = NoStatus
    /\ log = <<>>
    /\ InitFile
    /\ InitExt

NewCommit(ps) ==
    /\ ncommits < MaxCommits
    /\ ncommits' = ncommits + 1
    /\ parents' = [parents EXCEPT ![ncommits + 1] = ps]

\* the user commits in A without touching the tree (git commit --allow-empty)
LocalCommit ==
    /\ NewCommit(IF headA = 0 THEN <<>> ELSE <<headA>>)
    /\ headA' = ncommits + 1
    /\ st' = NoStatus
    /\ UNCHANGED <<trackA, headR, copyVars, log, fileVars, extVars>>

\* the clone B commits on top of R's head and pushes
RemoteCommit ==
    /\ headR # 0
    /\ NewCommit(<<headR>>)
    /\ headR' = ncommits + 1
    /\ st' = NoStatus
    /\ UNCHANGED <<headA, trackA, copyVars, log, fileVars, extVars>>

\* the user merges the remote-tracking branch into the local one (git merge)
LocalMerge ==
    /\ headA # 0 /\ trackA # 0
    /\ ~IsAncestor(trackA, headA) /\ ~IsAncestor(headA, trackA)
    /\ NewCommit(<<headA, trackA>>)
    /\ headA' = ncommits + 1
    /\ st' = NoStatus
    /\ UNCHANGED <<trackA, headR, copyVars, log, fileVars, extVars>>

\* Pull: fetch origin (the remote-tracking ref follows R), then fast-forward
\* the local branch when it is an ancestor of the fetched head
Pull ==
    /\ headR # 0 /\ headA # 0
    /\ trackA' = headR
    /\ headA' = IF IsAncestor(headA, headR) THEN headR ELSE headA
    /\ st' = NoStatus
    /\ UNCHANGED <<parents, ncommits, headR, copyVars, log, fileVars, extVars>>

\* Push: R's branch moves to A's head when that is a fast-forward for R
Push ==
    /\ headR # 0 /\ headA # 0
    /\ headR # headA /\ IsAncestor(headR, headA)
    /\ headR' = headA
    /\ trackA' = headA
    /\ st' = NoStatus
    /\ UNCHANGED <<parents, ncommits, headA, copyVars, log, fileVars, extVars>>

NextGraph ==
    \/ LocalCommit
    \/ RemoteCommit
    \/ LocalMerge
    \/ Pull
    \/ Push
    \/ handleRepoStatus

SpecGraph == InitGraph /\ [][NextGraph]_vars

\* ------------------------------------- SpecIndex: HEAD tree, index, worktree
\* the path is the only one with a status entry
OnlyChange(file) ==
    /\ file \in Files
    /\ StatusOf(headTree, index, worktree)[file].has
    /\ \A g \in Files \ {file} : ~StatusOf(headTree, index, worktree)[g].has

\* one served request: the operation, its arguments and the http status code
\* answered; for a stage request also the index it found and whether its
\* file was the only change
Served(op, file, msg, code) ==
    [op |-> op, file |-> file, msg |-> msg, code |-> code,
     pre |-> IF op = "stage" THEN index ELSE EmptyTree,
     sole |-> op = "stage" /\ OnlyChange(file)]

\* a request answered before git is called (unknown repository, missing
\* message) stands alone in the log
Answered(rec) == <<rec>>

\* the log holds the git call just served, after the successful stage or
\* stage-all request that directly preceded it, if there is one
Logged(rec) ==
    IF log # <<>> /\ log[Len(log)].op \in {"stage", "stage-all"}
                  /\ log[Len(log)].code = StatusOK
    THEN <<log[Len(log)], rec>>
    ELSE <<rec>>

\* (a slip: Add without the early return for an unmodified worktree axis)
Add_NoEarlyReturn(h, i, w) ==
    IF w # 0 THEN [err |-> FALSE, idx |-> w]
    ELSE IF i # 0 THEN [err |-> FALSE, idx |-> 0]
    ELSE [err |-> TRUE, idx |-> i]

\* Worktree.Add of one path: nothing to do when the path's worktree axis is
\* Unmodified; otherwise the file is hashed into the index, or, when it is
\* not on disk, its entry is removed from the index (an error if there is
\* none).
Add(h, i, w) ==
    LET s == FileStatus(h, i, w)
    IN IF s.has /\ s.Worktree = Unmodified THEN [err |-> FALSE, idx |-> i]
       ELSE IF w # 0 THEN [err |-> FALSE, idx |-> w]
       ELSE IF i # 0 THEN [err |-> FALSE, idx |-> 0]
       ELSE [err |-> TRUE, idx |-> i]

StageFile(file) == Add(headTree[file], index[file], worktree[file])

\* (a slip: the entry is dropped from the index, as git rm --cached does)
UnstageFile_DropsEntry(file) == [index EXCEPT ![file] = 0]

\* git reset HEAD -- file: the path's index entry becomes HEAD's
UnstageFile(file) == [index EXCEPT ![file] = headTree[file]]

\* (a slip: git add without -A, which leaves removed files in the index)
StageAll_NoDeletions == [f \in Files |-> IF worktree[f] = 0 THEN index[f] ELSE worktree[f]]

\* (a slip: git add -u, which leaves new files out)
StageAll_TrackedOnly == [f \in Files |-> IF index[f] = 0 THEN 0 ELSE worktree[f]]

\* git add -A: the index becomes the worktree
StageAll == worktree

\* (a slip: only the paths of HEAD are reset, added paths stay in the index)
UnstageAll_TrackedOnly == [f \in Files |-> IF headTree[f] # 0 THEN headTree[f] ELSE index[f]]

\* git reset: the index becomes HEAD's tree
UnstageAll == headTree

\* (a slip: the message is not checked)
MessageMissing_Unchecked(msg) == FALSE

\* handleCommit refuses an empty message
MessageMissing(msg) == msg = ""

\* (a slip: only an index without any entry is refused)
EmptyCommit_EmptyIndexOnly == index = EmptyTree

\* Worktree.Commit without AllowEmptyCommits refuses a tree equal to HEAD's
\* (or an empty index when there is no commit yet)
EmptyCommit == index = headTree

\* the files of the worktree change outside the engine: an editor writes one
WriteFile ==
    \E f \in Files, c \in 1..MaxContent :
        /\ worktree[f] # c
        /\ worktree' = [worktree EXCEPT ![f] = c]
        /\ st' = NoStatus
        /\ log' = <<>>
        /\ UNCHANGED <<graphVars, headTree, index, fileVars, extVars>>

\* ... or removes one
RemoveFile ==
    \E f \in Files :
        /\ worktree[f] # 0
        /\ worktree' = [worktree EXCEPT ![f] = 0]
        /\ st' = NoStatus
        /\ log' = <<>>
        /\ UNCHANGED <<graphVars, headTree, index, fileVars, extVars>>

handleStage ==
    \E id \in RepoIds, f \in Files :
        /\ IF ~getRepoByID(id)
           THEN /\ log' = Answered(Served("stage", f, "", StatusNotFound))
                /\ UNCHANGED index
           ELSE IF StageFile(f).err
           THEN /\ log' = Logged(Served("stage", f, "", StatusInternalServerError))
                /\ UNCHANGED index
           ELSE /\ log' = Logged(Served("stage", f, "", StatusOK))
                /\ index' = [index EXCEPT ![f] = StageFile(f).idx]
        /\ st' = NoStatus
        /\ UNCHANGED <<graphVars, headTree, worktree, fileVars, extVars>>

\* (a slip: the file is checked out of HEAD as well, as git checkout does)
handleUnstage_Hard ==
    \E id \in RepoIds, f \in Files :
        /\ IF ~getRepoByID(id)
           THEN /\ log' = Answered(Served("unstage", f, "", StatusNotFound))
                /\ UNCHANGED <<index, worktree>>
           ELSE IF headA = 0
           THEN /\ log' = Logged(Served("unstage", f, "", StatusInternalServerError))
                /\ UNCHANGED <<index, worktree>>
           ELSE /\ log' = Logged(Served("unstage", f, "", StatusOK))
                /\ index' = UnstageFile(f)
                /\ worktree' = [worktree EXCEPT ![f] = headTree[f]]
        /\ st' = NoStatus
        /\ UNCHANGED <<graphVars, headTree, fileVars, extVars>>

\* handleUnstage: the lookup, then git reset HEAD -- file, which fails when
\* HEAD does not resolve to a commit
handleUnstage ==
    \E id \in RepoIds, f \in Files :
        /\ IF ~getRepoByID(id)
           THEN /\ log' = Answered(Served("unstage", f, "", StatusNotFound))
                /\ UNCHANGED index
           ELSE IF headA = 0
           THEN /\ log' = Logged(Served("unstage", f, "", StatusInternalServerError))
                /\ UNCHANGED index
           ELSE /\ log' = Logged(Served("unstage", f, "", StatusOK))
                /\ index' = UnstageFile(f)
        /\ st' = NoStatus
        /\ UNCHANGED <<graphVars, headTree, worktree, fileVars, extVars>>

handleStageAll ==
    \E id \in RepoIds :
        /\ IF ~getRepoByID(id)
           THEN /\ log' = Answered(Served("stage-all", "", "", StatusNotFound))
                /\ UNCHANGED index
           ELSE /\ log' = Logged(Served("stage-all", "", "", StatusOK))
                /\ index' = StageAll
        /\ st' = NoStatus
        /\ UNCHANGED <<graphVars, headTree, worktree, fileVars, extVars>>

handleUnstageAll ==
    \E id \in RepoIds :
        /\ IF ~getRepoByID(id)
           THEN /\ log' = Answered(Served("unstage-all", "", "", StatusNotFound))
                /\ UNCHANGED index
           ELSE /\ log' = Logged(Served("unstage-all", "", "", StatusOK))
                /\ index' = UnstageAll
        /\ st' = NoStatus
        /\ UNCHANGED <<graphVars, headTree, worktree, fileVars, extVars>>

\* (a slip: the commit records the worktree, as git commit -a would)
BuildTree_FromWorktree == worktree

\* the tree Worktree.Commit builds for the new commit: the index
BuildTree == index

\* handleCommit: the message check, the lookup, then Commit: a new commit
\* whose tree is the index and whose parent is the previous HEAD
handleCommit ==
    \E id \in RepoIds, msg \in Msgs :
        /\ ncommits < MaxEngineCommits
        /\ IF MessageMissing(msg)
           THEN /\ log' = Answered(Served("commit", "", msg, StatusBadRequest))
                /\ UNCHANGED <<parents, ncommits, headA, headTree>>
           ELSE IF ~getRepoByID(id)
           THEN /\ log' = Answered(Served("commit", "", msg, StatusNotFound))
                /\ UNCHANGED <<parents, ncommits, headA, headTree>>
           ELSE IF EmptyCommit
           THEN /\ log' = Logged(Served("commit", "", msg, StatusInternalServerError))
                /\ UNCHANGED <<parents, ncommits, headA, headTree>>
           ELSE /\ log' = Logged(Served("commit", "", msg, StatusOK))
                /\ NewCommit(IF headA = 0 THEN <<>> ELSE <<headA>>)
                /\ headA' = ncommits + 1
                /\ headTree' = BuildTree
        /\ st' = NoStatus
        /\ UNCHANGED <<trackA, headR, index, worktree, fileVars, extVars>>

\* a fresh repository without commits, or one with a first commit of file a
InitIndex ==
    /\ parents = [c \in Commits |-> <<>>]
    /\ \/ ncommits = 1 /\ headA = 1
       \/ ncommits = 0 /\ headA = 0
    /\ trackA = 0
    /\ headR = 0
    /\ headTree = (IF headA = 0 THEN EmptyTree ELSE SeedTree)
    /\ index = headTree
    /\ worktree = headTree
    /\ st = NoStatus
    /\ log = <<>>
    /\ InitFile
    /\ InitExt

NextIndex ==
    \/ WriteFile
    \/ RemoveFile
    \/ handleRepoStatus
    \/ handleStage
    \/ handleUnstage
    \/ handleStageAll
    \/ handleUnstageAll
    \/ handleCommit

SpecIndex == InitIndex /\ [][NextIndex]_vars

\* --------------------------------------------------- SpecFile: handleGetFile
\* A path name is a sequence of characters and a path a sequence of names:
\* <<SegR, SegF>> is /r/f and <<>> is the root directory /.
SegR == <<"r">>
SegRX == <<"r", "x">>
SegF == <<"f">>
Dot == <<".">>
DotDot == <<".", ".">>

\* the names a file parameter is made of, and the file parameters
ParamSegs == {DotDot, SegR, SegRX, SegF}
FileParams == UNION {[1..n -> ParamSegs] : n \in 0..MaxFileSegs}
\* the paths a repository may be registered under
RepoPaths == {<<SegR>>, <<SegRX>>}
\* the regular files that may exist
FileUniverse == {<<SegF>>, <<SegR, SegF>>, <<SegRX, SegF>>}

\* filepath.Clean of a rooted path: "." is dropped, ".." removes the name
\* before it and is dropped at the root
RECURSIVE CleanInto(_, _)
CleanInto(acc, segs) ==
    IF segs = <<>> THEN acc
    ELSE IF Head(segs) = Dot THEN CleanInto(acc, Tail(segs))
    ELSE IF Head(segs) = DotDot
         THEN CleanInto(IF acc = <<>> THEN acc ELSE SubSeq(acc, 1, Len(acc) - 1), Tail(segs))
    ELSE CleanInto(Append(acc, Head(segs)), Tail(segs))

Clean(path) == CleanInto(<<>>, path)

\* filepath.Join cleans the concatenation
Join(dir, file) == Clean(dir \o file)

\* the string of a clean path: "/" alone for the root, else "/" before each name
RECURSIVE PathString(_)
PathString(path) ==
    IF path = <<>> THEN <<"/">>
    ELSE IF Len(path) = 1 THEN <<"/">> \o path[1]
    ELSE PathString(SubSeq(path, 1, Len(path) - 1)) \o <<"/">> \o path[Len(path)]

\* strings.HasPrefix
HasPrefix(str, prefix) ==
    Len(prefix) <= Len(str) /\ SubSeq(str, 1, Len(prefix)) = prefix

\* the security check of handleGetFile
WithinRepo(root, file) ==
    HasPrefix(PathString(Join(root, file)), PathString(Clean(root)))

\* dir is path or a directory above it
IsUnder(path, dir) ==
    Len(dir) <= Len(path) /\ SubSeq(path, 1, Len(dir)) = dir

\* os.ReadFile on the filesystem fs: the content of a regular file; a read
\* error for a directory or below a regular file; else not-exist
ReadFile(fs, root, path) ==
    IF path \in fs THEN "content"
    ELSE IF IsUnder(root, path) \/ \E p \in fs : IsUnder(p, path) THEN "error"
    ELSE IF \E p \in fs : IsUnder(path, p) THEN "error"
    ELSE "not-exist"

\* the response of handleGetFile on the filesystem fs
GetFileResponse(fs, root, id, file) ==
    IF file = <<>>
    THEN [code |-> StatusBadRequest, body |-> "File parameter is required", read |-> FALSE]
    ELSE IF ~getRepoByID(id)
    THEN [code |-> StatusNotFound, body |-> "Repository not found", read |-> FALSE]
    ELSE IF ~WithinRepo(root, file)
    THEN [code |-> StatusBadRequest, body |-> "Invalid file path", read |-> FALSE]
    ELSE LET r == ReadFile(fs, root, Join(root, file))
         IN IF r = "not-exist"
            THEN [code |-> StatusNotFound, body |-> "File not found", read |-> TRUE]
            ELSE IF r = "error"
            THEN [code |-> StatusInternalServerError, body |-> "Failed to read file", read |-> TRUE]
            ELSE [code |-> StatusOK, body |-> "file content", read |-> TRUE]

handleGetFile ==
    \E id \in RepoIds, file \in FileParams :
        /\ fileReq' = [made |-> TRUE, id |-> id, file |-> file]
        /\ fileResp' = GetFileResponse(exists, repoPath, id, file)
        /\ UNCHANGED <<graphVars, copyVars, st, log, repoPath, exists, extVars>>

\* files come and go on the filesystem, inside and outside the repository
CreateFile ==
    \E p \in FileUniverse \ exists :
        /\ exists' = exists \cup {p}
        /\ fileReq' = NoRequest
        /\ fileResp' = NoResponse
        /\ UNCHANGED <<graphVars, copyVars, st, log, repoPath, extVars>>

DeleteFile ==
    \E p \in exists :
        /\ exists' = exists \ {p}
        /\ fileReq' = NoRequest
        /\ fileResp' = NoResponse
        /\ UNCHANGED <<graphVars, copyVars, st, log, repoPath, extVars>>

InitFileSpec ==
    /\ parents = [c \in Commits |-> <<>>]
    /\ ncommits = 1 /\ headA = 1 /\ trackA = 0 /\ headR = 0
    /\ headTree = SeedTree
    /\ index = headTree
    /\ worktree = headTree
    /\ st = NoStatus
    /\ log = <<>>
    /\ repoPath \in RepoPaths
    /\ exists = {}
    /\ fileReq = NoRequest
    /\ fileResp = NoResponse
    /\ InitExt

NextFile ==
    \/ handleGetFile
    \/ CreateFile
    \/ DeleteFile

SpecFile == InitFileSpec /\ [][NextFile]_vars

\* ------------------------------------------------- SpecSync: push and pull
\* An error value: the cause, and the message fmt.Errorf("...: %w") wraps
\* around it. errors.Is looks through the wrapping at the cause.
Err(wrap, cause) == [wrap |-> wrap, cause |-> cause]
ErrorsIs(err, target) == err.cause = target

\* the errors of go-git and of getAuth that Push and Pull can return
ErrRemoteNotFound == "remote not found"
ErrNoCredentials == "no credentials found"
ErrAuthenticationRequired == "authentication required"
ErrTransport == "transport failure"
NoErrAlreadyUpToDate == "already up-to-date"
ErrNonFastForwardUpdate == "non-fast-forward update"
ErrUnstagedChanges == "worktree contains unstaged changes"
FailedToGetAuth == "failed to get auth"

StatusConflict == 409

\* what the machine and the network do when asked: whether an ssh agent, an
\* ssh key or a credential helper answers, and how the transport ends
Creds == BOOLEAN
Links == {"up", "denied", "down"}

\* A has an origin remote exactly when R is there
HasOrigin == headR # 0

\* (a slip: the credentials are looked up before the remote)
getAuth_CredentialsFirst(cred) ==
    IF ~cred THEN Err("", ErrNoCredentials)
    ELSE IF ~HasOrigin THEN Err("", ErrRemoteNotFound)
    ELSE NoErr

\* getAuth: the origin remote is looked up first, then an ssh or https
\* credential for its url
getAuth(cred) ==
    IF ~HasOrigin THEN Err("", ErrRemoteNotFound)
    ELSE IF ~cred THEN Err("", ErrNoCredentials)
    ELSE NoErr

\* the transport of Repository.Push and of the fetch of Worktree.Pull
Transport(link) ==
    IF link = "denied" THEN Err("", ErrAuthenticationRequired)
    ELSE IF link = "down" THEN Err("", ErrTransport)
    ELSE NoErr

\* (a slip: a push that moves the remote-tracking ref only)
PushRefs_TrackingOnly == [r |-> headR, t |-> headA]

\* the refs a push that went through leaves: R's branch and A's
\* remote-tracking ref are at A's head
PushRefs == [r |-> headA, t |-> headA]

\* git.Push: the error, whether the remote was contacted, the refs afterwards
gitPush(cred, link) ==
    LET same == [r |-> headR, t |-> trackA]
    IN IF getAuth(cred) # NoErr
       THEN [err |-> Err(FailedToGetAuth, getAuth(cred).cause),
             contacted |-> FALSE, refs |-> same]
       ELSE IF Transport(link) # NoErr
       THEN [err |-> Transport(link), contacted |-> TRUE, refs |-> same]
       ELSE IF headR = headA
       THEN [err |-> Err("", NoErrAlreadyUpToDate), contacted |-> TRUE, refs |-> same]
       ELSE IF ~IsAncestor(headR, headA)
       THEN [err |-> Err("", ErrNonFastForwardUpdate), contacted |-> TRUE, refs |-> same]
       ELSE [err |-> NoErr, contacted |-> TRUE, refs |-> PushRefs]

\* handlePush: 404 for an unknown id, 500 with the error of Push, else 200
handlePush ==
    \E id \in RepoIds, cred \in Creds, link \in Links :
        /\ IF ~getRepoByID(id)
           THEN /\ syncResp' = [op |-> "push", code |-> StatusNotFound,
                                err |-> NoErr, contacted |-> FALSE]
                /\ UNCHANGED <<headR, trackA>>
           ELSE LET res == gitPush(cred, link)
                IN /\ syncResp' = [op |-> "push",
                                   code |-> IF res.err = NoErr THEN StatusOK
                                            ELSE StatusInternalServerError,
                                   err |-> res.err, contacted |-> res.contacted]
                   /\ headR' = res.refs.r
                   /\ trackA' = res.refs.t
        /\ st' = NoStatus
        /\ UNCHANGED <<parents, ncommits, headA, copyVars, log, fileVars,
                       commitTree, routed, adminVars, lock, lookup, walk>>

\* the tree of a commit; no commit has the empty tree
TreeOf(c) == IF c = 0 THEN EmptyTree ELSE commitTree[c]

\* tracked files whose worktree copy differs from the index (an untracked
\* file is not an unstaged change)
containsUnstagedChanges ==
    \E f \in Files : index[f] # 0 /\ worktree[f] # index[f]

\* (a slip: HEAD is moved and index and worktree are left alone)
Reset_HeadOnly(t) == {[idx |-> index, wt |-> worktree]}

\* Worktree.Reset in merge mode to a commit of tree t: the index becomes t
\* and every path of t or of the index is checked out; an untracked file in
\* no tree is kept or removed
Reset(t) ==
    {[idx |-> t, wt |-> w] : w \in
        {w \in Trees : \A f \in Files :
            IF t[f] # 0 \/ index[f] # 0 THEN w[f] = t[f]
            ELSE w[f] \in {worktree[f], 0}}}

\* git.Pull: every way the call can end: the error, whether the remote was
\* contacted, and the refs and trees afterwards. The fetch moves the
\* remote-tracking ref; the local branch only moves forward; nothing is merged.
gitPull(cred, link) ==
    LET t == TreeOf(headR)
        out(err, contacted, track, head, htree, idx, wt) ==
            [err |-> err, contacted |-> contacted, track |-> track, head |-> head,
             htree |-> htree, idx |-> idx, wt |-> wt]
        stay(err, contacted, track) ==
            out(err, contacted, track, headA, headTree, index, worktree)
    IN IF getAuth(cred) # NoErr
       THEN {stay(Err(FailedToGetAuth, getAuth(cred).cause), FALSE, trackA)}
       ELSE IF Transport(link) # NoErr
       THEN {stay(Transport(link), TRUE, trackA)}
       ELSE IF trackA = headR /\ headA = headR
       THEN {stay(Err("", NoErrAlreadyUpToDate), TRUE, headR)}
       ELSE IF trackA = headR /\ IsAncestor(headR, headA)
       THEN {stay(Err("", NoErrAlreadyUpToDate), TRUE, headR),
             stay(Err("", ErrNonFastForwardUpdate), TRUE, headR)}
       ELSE IF ~IsAncestor(headA, headR)
       THEN {stay(Err("", ErrNonFastForwardUpdate), TRUE, headR)}
       ELSE IF containsUnstagedChanges
       THEN {out(Err("", ErrUnstagedChanges), TRUE, headR, headR, t, index, worktree)}
       ELSE {out(NoErr, TRUE, headR, headR, t, r.idx, r.wt) : r \in Reset(t)}

\* handlePull: 404 for an unknown id, 500 with the error of Pull, else 200
handlePull ==
    \E id \in RepoIds, cred \in Creds, link \in Links :
        /\ IF ~getRepoByID(id)
           THEN /\ syncResp' = [op |-> "pull", code |-> StatusNotFound,
                                err |-> NoErr, contacted |-> FALSE]
                /\ UNCHANGED <<headA, trackA, copyVars>>
           ELSE \E res \in gitPull(cred, link) :
                   /\ syncResp' = [op |-> "pull",
                                   code |-> IF res.err = NoErr THEN StatusOK
                                            ELSE StatusInternalServerError,
                                   err |-> res.err, contacted |-> res.contacted]
                   /\ trackA' = res.track
                   /\ headA' = res.head
                   /\ headTree' = res.htree
                   /\ index' = res.idx
                   /\ worktree' = res.wt
        /\ st' = NoStatus
        /\ UNCHANGED <<parents, ncommits, headR, log, fileVars,
                       commitTree, routed, adminVars, lock, lookup, walk>>

\* the user edits or removes a file of the clean worktree of A
EditFile ==
    \E f \in Files, c \in Contents :
        /\ worktree = index
        /\ worktree[f] # c
        /\ worktree' = [worktree EXCEPT ![f] = c]
        /\ st' = NoStatus
        /\ syncResp' = NoSync
        /\ UNCHANGED <<graphVars, headTree, index, log, fileVars,
                       commitTree, routed, adminVars, lock, lookup, walk>>

\* the user stages and commits the worktree of A from a terminal
UserCommit ==
    /\ worktree # headTree
    /\ ncommits < MaxSyncCommits
    /\ NewCommit(<<headA>>)
    /\ commitTree' = [commitTree EXCEPT ![ncommits + 1] = worktree]
    /\ headA' = ncommits + 1
    /\ headTree' = worktree
    /\ index' = worktree
    /\ st' = NoStatus
    /\ syncResp' = NoSync
    /\ UNCHANGED <<trackA, headR, worktree, log, fileVars, routed, adminVars, lock, lookup, walk>>

\* the file the clone B works on
FileOfB == "b"

\* the clone B changes its file, commits on top of R's head and pushes
RemotePush ==
    \E c \in Contents :
        /\ HasOrigin
        /\ ncommits < MaxSyncCommits
        /\ TreeOf(headR)[FileOfB] # c
        /\ NewCommit(<<headR>>)
        /\ commitTree' = [commitTree EXCEPT
                             ![ncommits + 1] = [TreeOf(headR) EXCEPT ![FileOfB] = c]]
        /\ headR' = ncommits + 1
        /\ st' = NoStatus
        /\ syncResp' = NoSync
        /\ UNCHANGED <<headA, trackA, copyVars, log, fileVars, routed, adminVars, lock, lookup, walk>>

\* A is a clone of R at the first commit, or a repository without origin
InitSyncSpec ==
    /\ parents = [c \in Commits |-> <<>>]
    /\ ncommits = 1 /\ headA = 1
    /\ \/ trackA = 1 /\ headR = 1
       \/ trackA = 0 /\ headR = 0
    /\ headTree = SeedTree
    /\ index = headTree
    /\ worktree = headTree
    /\ commitTree = [c \in Commits |-> IF c = 1 THEN SeedTree ELSE EmptyTree]
    /\ syncResp = NoSync
    /\ st = NoStatus
    /\ log = <<>>
    /\ InitFile
    /\ InitRouter
    /\ InitAdmin
    /\ lock = 0
    /\ lookup = NoLookup
    /\ walk = NoWalk

NextSync ==
    \/ UserCommit
    \/ RemotePush
    \/ EditFile
    \/ handlePush
    \/ handlePull

SpecSync == InitSyncSpec /\ [][NextSync]_vars

\* ------------------------------------- SpecRoutes: the /internal/api router
StatusForbidden == 403

Route(method, path, handler) ==
    [method |-> method, path |-> path, handler |-> handler]

\* the routes registered on the /internal/api subrouter
InternalRoutes ==
    { Route("GET", "/health", "handleHealth"),
      Route("GET", "/repos", "handleListRepos"),
      Route("POST", "/repos", "handleAddRepo"),
      Route("DELETE", "/repos/{id}", "handleRemoveRepo"),
      Route("GET", "/repos/{id}/status", "handleRepoStatus"),
      Route("GET", "/repos/{id}/file", "handleGetFile"),
      Route("GET", "/repos/{id}/diff", "handleGetDiff"),
      Route("POST", "/repos/{id}/stage", "handleStage"),
      Route("POST", "/repos/{id}/stage-all", "handleStageAll"),
      Route("POST", "/repos/{id}/unstage", "handleUnstage"),
      Route("POST", "/repos/{id}/unstage-all", "handleUnstageAll"),
      Route("POST", "/repos/{id}/commit", "handleCommit"),
      Route("POST", "/repos/{id}/push", "handlePush"),
      Route("POST", "/repos/{id}/pull", "handlePull"),
      Route("GET", "/users", "handleListUsers"),
      Route("POST", "/users", "handleAddUser"),
      Route("DELETE", "/users/{id}", "handleRemoveUser") }

\* the routes with an {id} variable, and the values requests give it
TakesId(route) ==
    route.path \notin {"/health", "/repos", "/users"}
RouteIds(route) == IF TakesId(route) THEN RepoIds ELSE {""}

\* the hosts requests come from: the server listens on every interface
RemoteHosts == {"127.0.0.1", "::1", "10.0.0.7", "203.0.113.9"}
IsLoopback(host) == host \in {"127.0.0.1", "::1"}

\* localOnlyMiddleware: whether the request is passed on to the next handler.
\* The body calls next.ServeHTTP for every request.
localOnlyMiddleware(host) == TRUE

\* the router serves a request under /internal/api: the middleware of the
\* subrouter, then the handler of the matching route
ServeInternal ==
    \E route \in InternalRoutes, host \in RemoteHosts :
        \E id \in RouteIds(route) :
            /\ routed' = [made |-> TRUE, method |-> route.method,
                          path |-> route.path, id |-> id, remote |-> host,
                          handler |-> IF localOnlyMiddleware(host)
                                      THEN route.handler ELSE "",
                          code |-> IF localOnlyMiddleware(host)
                                   THEN 0 ELSE StatusForbidden]
            /\ UNCHANGED <<graphVars, copyVars, st, log, fileVars, syncVars,
                           adminVars, lock, lookup, walk>>

InitRoutes ==
    /\ parents = [c \in Commits |-> <<>>]
    /\ ncommits = 1 /\ headA = 1 /\ trackA = 0 /\ headR = 0
    /\ headTree = SeedTree
    /\ index = headTree
    /\ worktree = headTree
    /\ st = NoStatus
    /\ log = <<>>
    /\ InitFile
    /\ InitExt

NextRoutes == ServeInternal

SpecRoutes == InitRoutes /\ [][NextRoutes]_vars

\* ------------------------------- SpecRepos: the registry of repositories
StatusCreated == 201
StatusNoContent == 204

\* the n-th uuid handed out by uuid.New
Uuid(n) == <<"uuid", n>>

\* the paths add requests name, and what os.Stat and git find there:
\* /g and /h hold git repositories, /d is a plain directory, /f a regular
\* file and /x does not exist
Paths == {"", "/g", "/h", "/d", "/f", "/x"}
PathKind(path) ==
    IF path \in {"/g", "/h"} THEN "repository"
    ELSE IF path = "/d" THEN "directory"
    ELSE IF path = "/f" THEN "file"
    ELSE "missing"

\* the ids remove requests name: the ids handed out so far or later
RemoveIds == {Uuid(n) : n \in 0..MaxRequests}

Repository(id, path) == [id |-> id, path |-> path]
PathsOf(repos) == {repos[i].path : i \in 1..Len(repos)}
IdsOf(repos) == {repos[i].id : i \in 1..Len(repos)}

\* the loop of the remove handlers: the records with another id, in order
RECURSIVE WithoutId(_, _)
WithoutId(seq, id) ==
    IF seq = <<>> THEN <<>>
    ELSE IF Head(seq).id = id THEN WithoutId(Tail(seq), id)
    ELSE <<Head(seq)>> \o WithoutId(Tail(seq), id)

\* a goroutine answers its request
Answer(p, code, body) ==
    procs' = [procs EXCEPT ![p].phase = "done", ![p].code = code, ![p].body = body]

\* (a slip: the loaded records are not searched for the path)
AlreadyTracked_Unchecked(repos, path) == FALSE

\* the loop of handleAddRepo over the loaded records
AlreadyTracked(repos, path) == path \in PathsOf(repos)

\* handleAddRepo up to LoadRepositories and the search for the path: the
\* path must be given, exist and be a directory
AddRepoLoad(p) ==
    \E path \in Paths :
        /\ procs[p].phase = "idle"
        /\ LET code == IF path = "" THEN StatusBadRequest
                       ELSE IF PathKind(path) = "missing" THEN StatusBadRequest
                       ELSE IF PathKind(path) = "file" THEN StatusBadRequest
                       ELSE IF AlreadyTracked(repoStore, path) THEN StatusConflict
                       ELSE 0
           IN procs' = [procs EXCEPT ![p] =
                  [Idle EXCEPT !.kind = "AddRepo", !.path = path,
                               !.phase = IF code = 0 THEN "loaded" ELSE "done",
                               !.snap = IF code = 0 THEN repoStore ELSE <<>>,
                               !.code = code]]
        /\ UNCHANGED <<repoStore, userStore, nextId>>

\* handleAddRepo from the new record to SaveRepositories and the answer
AddRepoSave(p) ==
    /\ procs[p].phase = "loaded" /\ procs[p].kind = "AddRepo"
    /\ LET newRepo == Repository(Uuid(nextId + 1), procs[p].path)
       IN /\ repoStore' = Append(procs[p].snap, newRepo)
          /\ Answer(p, StatusCreated, <<newRepo>>)
    /\ nextId' = nextId + 1
    /\ UNCHANGED userStore

\* handleRemoveRepo up to LoadRepositories and the search for the id
RemoveRepoLoad(p) ==
    \E id \in RemoveIds :
        /\ procs[p].phase = "idle"
        /\ LET found == id \in IdsOf(repoStore)
           IN procs' = [procs EXCEPT ![p] =
                  [Idle EXCEPT !.kind = "RemoveRepo", !.id = id,
                               !.phase = IF found THEN "loaded" ELSE "done",
                               !.snap = IF found THEN repoStore ELSE <<>>,
                               !.code = IF found THEN 0 ELSE StatusNotFound]]
        /\ UNCHANGED <<repoStore, userStore, nextId>>

\* handleRemoveRepo from SaveRepositories to the answer
RemoveRepoSave(p) ==
    /\ procs[p].phase = "loaded" /\ procs[p].kind = "RemoveRepo"
    /\ repoStore' = WithoutId(procs[p].snap, procs[p].id)
    /\ Answer(p, StatusNoContent, <<>>)
    /\ UNCHANGED <<userStore, nextId>>

\* the frame of the steps of the registry requests
AdminFrame ==
    UNCHANGED <<graphVars, copyVars, st, log, fileVars, syncVars, routed, lock,
                lookup, walk>>

handleAddRepo == \E p \in Procs : (AddRepoLoad(p) \/ AddRepoSave(p)) /\ AdminFrame

handleRemoveRepo ==
    \E p \in Procs : (RemoveRepoLoad(p) \/ RemoveRepoSave(p)) /\ AdminFrame

\* the registry is empty or tracks /g; every goroutine is idle
InitRepos ==
    /\ parents = [c \in Commits |-> <<>>]
    /\ ncommits = 1 /\ headA = 1 /\ trackA = 0 /\ headR = 0
    /\ headTree = SeedTree
    /\ index = headTree
    /\ worktree = headTree
    /\ st = NoStatus
    /\ log = <<>>
    /\ InitFile
    /\ InitSync
    /\ InitRouter
    /\ lock = 0
    /\ lookup = NoLookup
    /\ walk = NoWalk
    /\ repoStore \in {<<>>, <<Repository(Uuid(0), "/g")>>}
    /\ userStore = <<>>
    /\ procs = [p \in Procs |-> Idle]
    /\ nextId = 0

NextRepos ==
    \/ handleAddRepo
    \/ handleRemoveRepo

SpecRepos == InitRepos /\ [][NextRepos]_vars

\* ---------------------------------------------- SpecUsers: the user records
StatusUnauthorized == 401

\* the names and passwords requests carry
Usernames == {"", "u1", "u2"}
Passwords == {"", "p1", "p2"}

\* bcrypt: a hash is a salt and the digest of the password under that salt;
\* the empty string is no hash. The salt is drawn anew for every hash.
NoHash == [salt |-> 0, digest |-> <<>>]
GenerateFromPassword(pw, salt) == [salt |-> salt, digest |-> <<"bcrypt", salt, pw>>]
CompareHashAndPassword(hash, pw) ==
    hash # NoHash /\ hash.digest = <<"bcrypt", hash.salt, pw>>

User(id, name, hash) == [id |-> id, username |-> name, password_hash |-> hash]
UserResponse(id, name) == [id |-> id, username |-> name]
LoginResponse(user) == [token |-> <<user.id, user.username>>]
NamesOf(users) == {users[i].username : i \in 1..Len(users)}

\* (a slip: the records are listed as stored)
Sanitize_AsStored(users) == users

\* the loop of handleListUsers: every record with its hash blanked
Sanitize(users) ==
    [i \in 1..Len(users) |-> [users[i] EXCEPT !.password_hash = NoHash]]

\* handleAddUser up to LoadUsers and the search for the username
AddUserLoad(p) ==
    \E name \in Usernames, pw \in Passwords :
        /\ procs[p].phase = "idle"
        /\ LET code == IF name = "" \/ pw = "" THEN StatusBadRequest
                       ELSE IF name \in NamesOf(userStore) THEN StatusConflict
                       ELSE 0
           IN procs' = [procs EXCEPT ![p] =
                  [Idle EXCEPT !.kind = "AddUser", !.name = name, !.pw = pw,
                               !.phase = IF code = 0 THEN "loaded" ELSE "done",
                               !.snap = IF code = 0 THEN userStore ELSE <<>>,
                               !.code = code]]
        /\ UNCHANGED <<repoStore, userStore, nextId>>

\* handleAddUser from the hash to SaveUsers and the answer
AddUserSave(p) ==
    /\ procs[p].phase = "loaded" /\ procs[p].kind = "AddUser"
    /\ LET newUser == User(Uuid(nextId + 1), procs[p].name,
                           GenerateFromPassword(procs[p].pw, nextId + 1))
       IN /\ userStore' = Append(procs[p].snap, newUser)
          /\ Answer(p, StatusCreated, <<UserResponse(newUser.id, newUser.username)>>)
    /\ nextId' = nextId + 1
    /\ UNCHANGED repoStore

\* handleRemoveUser up to LoadUsers and the search for the id
RemoveUserLoad(p) ==
    \E id \in RemoveIds :
        /\ procs[p].phase = "idle"
        /\ LET found == id \in IdsOf(userStore)
           IN procs' = [procs EXCEPT ![p] =
                  [Idle EXCEPT !.kind = "RemoveUser", !.id = id,
                               !.phase = IF found THEN "loaded" ELSE "done",
                               !.snap = IF found THEN userStore ELSE <<>>,
                               !.code = IF found THEN 0 ELSE StatusNotFound]]
        /\ UNCHANGED <<repoStore, userStore, nextId>>

\* handleRemoveUser from SaveUsers to the answer
RemoveUserSave(p) ==
    /\ procs[p].phase = "loaded" /\ procs[p].kind = "RemoveUser"
    /\ userStore' = WithoutId(procs[p].snap, procs[p].id)
    /\ Answer(p, StatusNoContent, <<>>)
    /\ UNCHANGED <<repoStore, nextId>>

handleAddUser == \E p \in Procs : (AddUserLoad(p) \/ AddUserSave(p)) /\ AdminFrame

handleRemoveUser ==
    \E p \in Procs : (RemoveUserLoad(p) \/ RemoveUserSave(p)) /\ AdminFrame

\* handleListUsers: the stored records, sanitized
handleListUsers ==
    \E p \in Procs :
        /\ procs[p].phase = "idle"
        /\ procs' = [procs EXCEPT ![p] =
               [Idle EXCEPT !.kind = "ListUsers", !.phase = "done",
                            !.code = StatusOK, !.body = Sanitize(userStore)]]
        /\ UNCHANGED <<repoStore, userStore, nextId>>
        /\ AdminFrame

\* handleLogin: a token for the first stored record of that name whose hash
\* matches the password
handleLogin ==
    \E p \in Procs, name \in Usernames \ {""}, pw \in Passwords \ {""} :
        /\ procs[p].phase = "idle"
        /\ LET match == {i \in 1..Len(userStore) :
                            /\ userStore[i].username = name
                            /\ CompareHashAndPassword(userStore[i].password_hash, pw)}
               first == CHOOSE i \in match : \A j \in match : i <= j
           IN procs' = [procs EXCEPT ![p] =
                  [Idle EXCEPT !.kind = "Login", !.name = name, !.pw = pw,
                               !.phase = "done",
                               !.code = IF match = {} THEN StatusUnauthorized
                                        ELSE StatusOK,
                               !.body = IF match = {} THEN <<>>
                                        ELSE <<LoginResponse(userStore[first])>>]]
        /\ UNCHANGED <<repoStore, userStore, nextId>>
        /\ AdminFrame

\* no user is stored; every goroutine is idle
InitUsers ==
    /\ parents = [c \in Commits |-> <<>>]
    /\ ncommits = 1 /\ headA = 1 /\ trackA = 0 /\ headR = 0
    /\ headTree = SeedTree
    /\ index = headTree
    /\ worktree = headTree
    /\ st = NoStatus
    /\ log = <<>>
    /\ InitFile
    /\ InitExt

NextUsers ==
    \/ handleAddUser
    \/ handleRemoveUser
    \/ handleListUsers
    \/ handleLogin

SpecUsers == InitUsers /\ [][NextUsers]_vars

\* ------------------------- SpecRace: concurrent mutations of one repository
\* The handlers run in one goroutine per request and take no lock of their
\* own. Worktree.Add of go-git reads the index file, changes its copy and
\* writes the file back, without .git/index.lock. The git command line
\* creates index.lock (or fails when it exists), reads the index, and renames
\* the lock file over it.

\* the commands StageAll, UnstageFile and UnstageAll run
CliKinds == {"StageAll", "Unstage", "UnstageAll"}

\* the index a command of the git command line writes, from the one it read
CliResult(kind, file, idx) ==
    IF kind = "StageAll" THEN worktree
    ELSE IF kind = "UnstageAll" THEN headTree
    ELSE [idx EXCEPT ![file] = headTree[file]]

\* a goroutine takes a request and is at a position of its handler
Begin(p, kind, file, phase, snap, code) ==
    procs' = [procs EXCEPT ![p] =
        [Idle EXCEPT !.kind = kind, !.path = file, !.phase = phase,
                     !.snap = snap, !.code = code]]

\* handleStage up to the end of the reads of Worktree.Add: an error, nothing
\* to do, or a changed copy of the index to write
StageRead(p) ==
    \E f \in Files :
        /\ procs[p].phase = "idle"
        /\ LET res == StageFile(f)
           IN IF res.err
              THEN Begin(p, "Stage", f, "done", <<>>, StatusInternalServerError)
              ELSE IF res.idx = index[f]
              THEN Begin(p, "Stage", f, "done", <<>>, StatusOK)
              ELSE Begin(p, "Stage", f, "loaded",
                         [index EXCEPT ![f] = res.idx], 0)
        /\ UNCHANGED <<index, lock, parents, ncommits, headA, headTree>>

\* Storer.SetIndex: the index file is replaced by the copy
SetIndex(p) == procs[p].snap

\* handleStage from the write of Worktree.Add to the answer
StageWrite(p) ==
    /\ procs[p].phase = "loaded" /\ procs[p].kind = "Stage"
    /\ index' = SetIndex(p)
    /\ Answer(p, StatusOK, <<>>)
    /\ UNCHANGED <<lock, parents, ncommits, headA, headTree>>

\* a git command starts: it fails when index.lock exists, else it creates
\* the lock file, reads the index and prepares the new one
CliLock(p) ==
    \E kind \in CliKinds, f \in Files :
        /\ procs[p].phase = "idle"
        /\ kind = "Unstage" \/ f = "a"
        /\ LET file == IF kind = "Unstage" THEN f ELSE ""
           IN IF lock # 0
              THEN /\ Begin(p, kind, file, "done", <<>>, StatusInternalServerError)
                   /\ UNCHANGED lock
              ELSE /\ Begin(p, kind, file, "loaded", CliResult(kind, f, index), 0)
                   /\ lock' = p
        /\ UNCHANGED <<index, parents, ncommits, headA, headTree>>

\* the git command ends: the lock file is renamed over the index
CliWrite(p) ==
    /\ procs[p].phase = "loaded" /\ procs[p].kind \in CliKinds
    /\ lock = p
    /\ index' = procs[p].snap
    /\ lock' = 0
    /\ Answer(p, StatusOK, <<>>)
    /\ UNCHANGED <<parents, ncommits, headA, headTree>>

\* handleCommit with a message: Worktree.Commit reads the index and records
\* it as the tree of a new commit
CommitIndex(p) ==
    /\ procs[p].phase = "idle"
    /\ IF EmptyCommit
       THEN /\ Begin(p, "Commit", "", "done", <<>>, StatusInternalServerError)
            /\ UNCHANGED <<parents, ncommits, headA, headTree>>
       ELSE /\ Begin(p, "Commit", "", "done", <<>>, StatusOK)
            /\ NewCommit(<<headA>>)
            /\ headA' = ncommits + 1
            /\ headTree' = index
    /\ UNCHANGED <<index, lock>>

RaceFrame ==
    UNCHANGED <<trackA, headR, worktree, st, log, fileVars, syncVars, routed,
                repoStore, userStore, nextId, lookup, walk>>

RaceStage == \E p \in Procs : (StageRead(p) \/ StageWrite(p)) /\ RaceFrame
RaceCli == \E p \in Procs : (CliLock(p) \/ CliWrite(p)) /\ RaceFrame
RaceCommit == \E p \in Procs : CommitIndex(p) /\ RaceFrame

\* a repository with one commit, nothing staged and any worktree
InitRace ==
    /\ parents = [c \in Commits |-> <<>>]
    /\ ncommits = 1 /\ headA = 1 /\ trackA = 0 /\ headR = 0
    /\ headTree = SeedTree
    /\ index = headTree
    /\ worktree \in Trees
    /\ st = NoStatus
    /\ log = <<>>
    /\ InitFile
    /\ InitExt

NextRace ==
    \/ RaceStage
    \/ RaceCli
    \/ RaceCommit

SpecRace == InitRace /\ [][NextRace]_vars

\* --------------------- SpecResolve: repository ids against the registry
\* The requests of the engine and the capability call each handler makes on
\* the path of the repository it resolved; the effect of the call on the
\* repository is followed in SpecIndex and SpecSync.
EngineOps ==
    {[op |-> "status", call |-> "GetStatus"],
     [op |-> "stage", call |-> "StageFile"],
     [op |-> "unstage", call |-> "UnstageFile"],
     [op |-> "stage-all", call |-> "StageAll"],
     [op |-> "unstage-all", call |-> "UnstageAll"],
     [op |-> "file", call |-> "ReadFile"],
     [op |-> "diff", call |-> "GetFileDiff"],
     [op |-> "commit", call |-> "Commit"],
     [op |-> "push", call |-> "Push"],
     [op |-> "pull", call |-> "Pull"]}

\* what a request carries besides the id: a body that does not decode, an
\* empty file name or message, or one that is given; a request without body
\* or parameter carries nothing
ArgsOf(op) ==
    IF op \in {"stage", "unstage", "commit"} THEN {"malformed", "empty", "given"}
    ELSE IF op \in {"file", "diff"} THEN {"empty", "given"}
    ELSE {""}

\* the checks a handler makes before it resolves the id: the body of a stage,
\* unstage or commit request must decode, the file parameter of a file or
\* diff request and the message of a commit must not be empty
RejectedFirst(op, arg) ==
    \/ op \in {"stage", "unstage", "commit"} /\ arg = "malformed"
    \/ op \in {"file", "diff", "commit"} /\ arg = "empty"

\* the ids engine requests name: one that is registered when the server
\* starts and one that never is
LookupIds == {Uuid(0), Uuid(1)}
StartRepos == <<Repository(Uuid(0), "/g")>>

NoRepository == Repository(<<>>, "")

\* the loop of getRepoByID over the records: the first with the id
RECURSIVE FirstWithId(_, _)
FirstWithId(repos, id) ==
    IF repos = <<>> THEN NoRepository
    ELSE IF Head(repos).id = id THEN Head(repos)
    ELSE FirstWithId(Tail(repos), id)

\* (a slip: the records loaded when the server started are searched)
LookupRepo_Cached(id) == FirstWithId(StartRepos, id)

\* getRepoByID: LoadRepositories, then the search
LookupRepo(id) == FirstWithId(repoStore, id)

\* one engine request from the first check to the capability call: 400 from
\* the checks before the lookup, 404 when the id does not resolve, else the
\* call on the resolved path, whose result decides the answer (code 0 here)
ServeEngine ==
    \E e \in EngineOps, id \in LookupIds :
        \E arg \in ArgsOf(e.op) :
            LET repo == LookupRepo(id)
                code == IF RejectedFirst(e.op, arg) THEN StatusBadRequest
                        ELSE IF repo = NoRepository THEN StatusNotFound
                        ELSE 0
            IN /\ lookup' = [op |-> e.op, id |-> id, arg |-> arg, code |-> code,
                             call |-> IF code = 0 THEN <<e.call, repo.path>>
                                      ELSE <<>>]
               /\ UNCHANGED <<graphVars, copyVars, st, log, fileVars, syncVars,
                              routed, adminVars, lock, walk>>

\* one repository is registered; every goroutine is idle
InitResolve ==
    /\ parents = [c \in Commits |-> <<>>]
    /\ ncommits = 1 /\ headA = 1 /\ trackA = 0 /\ headR = 0
    /\ headTree = SeedTree
    /\ index = headTree
    /\ worktree = headTree
    /\ st = NoStatus
    /\ log = <<>>
    /\ InitFile
    /\ InitSync
    /\ InitRouter
    /\ lock = 0
    /\ lookup = NoLookup
    /\ walk = NoWalk
    /\ repoStore = StartRepos
    /\ userStore = <<>>
    /\ procs = [p \in Procs |-> Idle]
    /\ nextId = 0

NextResolve ==
    \/ handleRemoveRepo
    \/ ServeEngine

SpecResolve == InitResolve /\ [][NextResolve]_vars

\* ----------------- SpecWalk: the commit iterator of countCommitsBetween
\* (a slip: an iterator that does not remember the commits it has yielded)
Seen_Never(c) == FALSE

\* the iterator has yielded the commit before
Seen(c) == c \in walk.seen

\* the frame of the steps of a walk
WalkFrame ==
    UNCHANGED <<graphVars, copyVars, st, log, fileVars, syncVars, routed,
                adminVars, lock, lookup>>

\* countCommitsBetween up to Repository.Log, for one of the two counts of
\* GetStatus: no walk when both ends are one commit; else the iterator starts
\* at 'from'
WalkStart ==
    /\ walk.on # "walking"
    /\ headA # 0 /\ trackA # 0
    /\ \E ends \in {<<headA, trackA>>, <<trackA, headA>>} :
          walk' = IF ends[1] = ends[2]
                  THEN [NoWalk EXCEPT !.on = "done", !.from = ends[1], !.to = ends[2]]
                  ELSE [NoWalk EXCEPT !.on = "walking", !.from = ends[1],
                                      !.to = ends[2], !.stack = << <<ends[1]>> >>]
    /\ WalkFrame

\* one turn of the loop of the iterator's Next, and the callback of ForEach
\* when a commit is yielded: an exhausted parent list is dropped, a commit
\* yielded before is skipped, the walk stops at 'to', any other commit is
\* counted and its parents are pushed; the walk ends when the stack is empty
WalkNext ==
    /\ walk.on = "walking"
    /\ IF walk.stack = <<>>
       THEN walk' = [walk EXCEPT !.on = "done"]
       ELSE LET top == walk.stack[Len(walk.stack)]
                below == SubSeq(walk.stack, 1, Len(walk.stack) - 1)
            IN IF top = <<>>
               THEN walk' = [walk EXCEPT !.stack = below]
               ELSE LET c == Head(top)
                        rest == Append(below, Tail(top))
                    IN IF Seen(c)
                       THEN walk' = [walk EXCEPT !.stack = rest]
                       ELSE IF c = walk.to
                       THEN walk' = [walk EXCEPT !.on = "done",
                                                 !.stack = rest,
                                                 !.seen = @ \cup {c},
                                                 !.visits[c] = @ + 1]
                       ELSE walk' = [walk EXCEPT
                                        !.stack = IF parents[c] = <<>> THEN rest
                                                  ELSE Append(rest, parents[c]),
                                        !.seen = @ \cup {c},
                                        !.count = @ + 1,
                                        !.visits[c] = @ + 1]
    /\ WalkFrame

NextWalk ==
    \/ LocalCommit
    \/ RemoteCommit
    \/ LocalMerge
    \/ Pull
    \/ Push
    \/ WalkStart
    \/ WalkNext

SpecWalk == InitGraph /\ [][NextWalk]_vars

\* the goroutine of a status request keeps running
SpecWalkFair == SpecWalk /\ WF_vars(WalkNext)

\* ------------------------------------------------------- claims on SpecGraph
\* commits on one side of the pair HEAD / remote-tracking ref only
OnlyLocal == Reach(headA) \ Reach(trackA)
OnlyRemote == Reach(trackA) \ Reach(headA)

\* C1 (as claimed): whenever the remote-tracking ref exists, the status
\* reports ahead = the number of commits reachable from HEAD and not from the
\* remote-tracking commit, and behind = the number in the other direction.
C1_AheadBehindExact ==
    (st.fresh /\ st.ok /\ trackA # 0) =>
        /\ st.Ahead = Cardinality(OnlyLocal)
        /\ st.Behind = Cardinality(OnlyRemote)

\* C2 (as claimed): A is one local commit on top of its remote-tracking
\* commit, whether or not R has moved on since: the status reports ahead 1
\* and behind 0 as long as A has not fetched or pulled.
C2_OneAheadStaleRef ==
    (st.fresh /\ st.ok /\ trackA # 0 /\ parents[headA] = <<trackA>>) =>
        (st.Ahead = 1 /\ st.Behind = 0)

\* C6 (as claimed): without a remote-tracking ref for the current branch the
\* status request succeeds and reports ahead = 0 and behind = 0.
C6_NoRefAlwaysSucceeds ==
    (st.fresh /\ trackA = 0) => (st.ok /\ st.Ahead = 0 /\ st.Behind = 0)

\* C6 (amended): when HEAD resolves to a commit and the current branch has no
\* remote-tracking ref, the status request succeeds and reports ahead = 0 and
\* behind = 0, whatever the depth of the local history.
C6_NoRefZeroCounts ==
    (st.fresh /\ trackA = 0 /\ headA # 0) =>
        (st.ok /\ st.Ahead = 0 /\ st.Behind = 0)

\* a status was served for a repository three commits deep without the ref
C6_Witness ==
    st.fresh /\ st.ok /\ trackA = 0 /\ Cardinality(Reach(headA)) >= 3

\* ------------------------------------------------------- claims on SpecIndex
\* the last two requests served were op1 then op2, with nothing in between
LastTwo(op1, op2) == Len(log) = 2 /\ log[1].op = op1 /\ log[2].op = op2

\* the staging axis a status reports for the path now
StagingAxis(f) == FileStatus(headTree[f], index[f], worktree[f]).Staging

\* C5: a status reports clean = true exactly when index and worktree have no
\* difference from HEAD; one untracked file in a clean repository makes the
\* next status report clean = false.
C5_CleanIffNoDifference ==
    (st.fresh /\ st.ok) =>
        /\ st.Clean <=> (index = headTree /\ worktree = index)
        /\ (\E f \in Files : headTree[f] = 0 /\ index[f] = 0 /\ worktree[f] # 0)
               => ~st.Clean

\* a status served after one untracked file appeared in a clean repository
C5_Witness ==
    /\ st.fresh /\ st.ok /\ ~st.Clean
    /\ index = headTree
    /\ \E f \in Files :
          /\ headTree[f] = 0 /\ worktree[f] # 0
          /\ \A g \in Files \ {f} : worktree[g] = headTree[g]

\* C7: stage-all (or staging the only changed file), then a commit with a
\* non-empty message, then a status request: the status is served and
\* reports clean = true.
C7_StageCommitClean ==
    ( /\ st.fresh
      /\ Len(log) = 2
      /\ log[1].code = StatusOK
      /\ \/ log[1].op = "stage-all"
         \/ log[1].op = "stage" /\ log[1].sole
      /\ log[2].op = "commit" /\ log[2].msg # "" /\ log[2].code # StatusNotFound )
    => /\ log[2].code = StatusOK => st.ok
       /\ st.ok => st.Clean

\* a clean status after stage-all and a commit that recorded both paths
C7_Witness ==
    /\ st.fresh /\ st.ok /\ st.Clean
    /\ LastTwo("stage-all", "commit")
    /\ log[2].code = StatusOK
    /\ \A f \in Files : headTree[f] # 0

\* C8 (as claimed): Stage(f) then Unstage(f) restores the index entry of f to
\* what it was before the Stage, and the staging axis of f is unmodified.
C8_RoundTripExact ==
    ( /\ LastTwo("stage", "unstage")
      /\ log[1].code = StatusOK /\ log[2].code = StatusOK
      /\ log[1].file = log[2].file )
    => LET f == log[2].file
       IN /\ index[f] = log[1].pre[f]
          /\ StagingAxis(f) = Unmodified

\* C8 (amended): Stage(f) then Unstage(f) leaves the index entry of f equal
\* to HEAD's, which is the entry before the Stage exactly when nothing of f
\* was staged then; f is not staged afterwards: its staging axis is
\* unmodified, or untracked when f is not in HEAD and is on disk.
C8_RoundTripToHead ==
    ( /\ LastTwo("stage", "unstage")
      /\ log[1].code = StatusOK /\ log[2].code = StatusOK
      /\ log[1].file = log[2].file )
    => LET f == log[2].file
       IN /\ index[f] = headTree[f]
          /\ (index[f] = log[1].pre[f]) <=> (log[1].pre[f] = headTree[f])
          /\ StagingAxis(f) \in {Unmodified, Untracked}
          /\ (StagingAxis(f) = Untracked) <=> (headTree[f] = 0 /\ worktree[f] # 0)

\* a modified tracked file with nothing staged was staged, then unstaged
C8_Witness ==
    /\ LastTwo("stage", "unstage")
    /\ log[1].code = StatusOK /\ log[2].code = StatusOK
    /\ log[1].file = log[2].file
    /\ LET f == log[2].file
       IN /\ headTree[f] # 0 /\ worktree[f] # 0 /\ worktree[f] # headTree[f]
          /\ log[1].pre[f] = headTree[f]
          /\ index[f] = headTree[f]

\* C9 (as claimed): a Stage(f) that succeeded, repeated with no worktree
\* change in between, succeeds again and leaves the index as the first left it.
C9_StageTwiceSucceeds ==
    ( /\ LastTwo("stage", "stage")
      /\ log[1].file = log[2].file
      /\ log[1].code = StatusOK /\ log[2].code # StatusNotFound )
    => (log[2].code = StatusOK /\ index = log[2].pre)

\* C9 (amended): Stage(f) repeated with no worktree change in between leaves
\* the index as the first call left it; the second call succeeds unless f is
\* then in none of worktree, index and HEAD, where it fails and changes nothing.
C9_StageTwiceSameIndex ==
    ( /\ LastTwo("stage", "stage")
      /\ log[1].file = log[2].file
      /\ log[1].code = StatusOK /\ log[2].code # StatusNotFound )
    => LET f == log[2].file
       IN /\ index = log[2].pre
          /\ (log[2].code = StatusOK)
                 <=> (headTree[f] # 0 \/ index[f] # 0 \/ worktree[f] # 0)
          /\ log[2].code \in {StatusOK, StatusInternalServerError}

\* a changed file was staged twice: the first call moved the index
C9_Witness ==
    /\ LastTwo("stage", "stage")
    /\ log[1].file = log[2].file
    /\ log[1].code = StatusOK /\ log[2].code = StatusOK
    /\ log[1].pre # log[2].pre
    /\ index = log[2].pre

\* the step serves a commit request with an empty message
ServesEmptyCommit ==
    /\ log' # log
    /\ log' # <<>>
    /\ log'[Len(log')].op = "commit"
    /\ log'[Len(log')].msg = ""

\* C10: a commit request with an empty message is answered 400 before Commit
\* is called: no commit is created and HEAD, index and worktree are unchanged.
C10_EmptyMessageRejected ==
    [][ServesEmptyCommit =>
            /\ log'[Len(log')].code = StatusBadRequest
            /\ UNCHANGED <<parents, ncommits, headA, headTree, index, worktree>>]_vars

\* an empty-message commit was refused while changes were staged
C10_Witness ==
    /\ log # <<>>
    /\ log[Len(log)].op = "commit"
    /\ log[Len(log)].msg = ""
    /\ log[Len(log)].code = StatusBadRequest
    /\ index # headTree
    /\ ncommits < MaxEngineCommits

\* -------------------------------------------------------- claims on SpecFile
\* the request was served for a registered repository and names a file
FileRequested ==
    fileReq.made /\ getRepoByID(fileReq.id) /\ fileReq.file # <<>>

\* the canonical join of the request lies outside the repository root
ResolvesOutside ==
    ~IsUnder(Join(repoPath, fileReq.file), Clean(repoPath))

\* C3 (as claimed): a file parameter whose canonical join with the repository
\* path lies outside the repository root is rejected as a path traversal
\* before any read of the filesystem, and no content is returned.
C3_TraversalRejected ==
    (FileRequested /\ ResolvesOutside) =>
        /\ fileResp.code = StatusBadRequest
        /\ fileResp.body = "Invalid file path"
        /\ ~fileResp.read

\* two filesystems with the same files under the root
SameInside(fs1, fs2, root) ==
    \A p \in FileUniverse : IsUnder(p, root) => (p \in fs1 <=> p \in fs2)

\* C4 (as claimed): for a request that resolves outside the repository root
\* the response is the same on every filesystem that differs from the actual
\* one only outside the root.
C4_NoExistenceOracle ==
    (FileRequested /\ ResolvesOutside) =>
        \A fs \in SUBSET FileUniverse :
            SameInside(fs, exists, Clean(repoPath)) =>
                GetFileResponse(fs, repoPath, fileReq.id, fileReq.file) = fileResp

\* -------------------------------------------------------- claims on SpecSync
\* the last request served was this operation on the registered repository
Synced(op) == syncResp.op = op /\ syncResp.code # StatusNotFound

\* C11: a push on a repository without origin fails with the remote-not-found
\* error, which is not the missing-credentials, the authentication or the
\* transport error and which no push on a repository with an origin returns;
\* the remote is not contacted and no ref moves.
C11_NoRemoteIsDistinct ==
    Synced("push") =>
        /\ ~HasOrigin =>
              /\ syncResp.code = StatusInternalServerError
              /\ ErrorsIs(syncResp.err, ErrRemoteNotFound)
              /\ ~syncResp.contacted
              /\ trackA = 0
        /\ HasOrigin => ~ErrorsIs(syncResp.err, ErrRemoteNotFound)

\* a push was refused on a repository without origin that has a local commit
C11_Witness ==
    /\ Synced("push")
    /\ ~HasOrigin
    /\ headA > 1
    /\ ErrorsIs(syncResp.err, ErrRemoteNotFound)

\* C14: after a push answered with success, the branch head of the origin
\* is the local HEAD commit (and so is the remote-tracking ref).
C14_PushedHeadIsRemoteHead ==
    (Synced("push") /\ syncResp.code = StatusOK) =>
        (HasOrigin /\ headR = headA /\ trackA = headA)

\* a push of a local commit was answered with success
C14_Witness ==
    /\ Synced("push") /\ syncResp.code = StatusOK
    /\ headA > 1
    /\ headR = headA

\* C15: after a pull answered with success, the local HEAD is the head of the
\* origin branch and every file of the pulled head is in the worktree with
\* its content.
C15_PullFastForwards ==
    (Synced("pull") /\ syncResp.code = StatusOK) =>
        /\ headA = headR
        /\ headTree = TreeOf(headR)
        /\ \A f \in Files :
              TreeOf(headR)[f] # 0 => worktree[f] = TreeOf(headR)[f]

\* a pull brought the file of B, which the first commit does not have
C15_Witness ==
    /\ Synced("pull") /\ syncResp.code = StatusOK
    /\ headA = headR /\ headA > 1
    /\ SeedTree[FileOfB] = 0
    /\ worktree[FileOfB] # 0

\* the latest common ancestor of the two heads
MergeBase ==
    LET common == Reach(headA) \cap Reach(headR)
    IN IF common = {} THEN 0
       ELSE CHOOSE c \in common : \A d \in common : d <= c

\* the heads have diverged and changed one file in two ways
Conflicting ==
    /\ HasOrigin
    /\ ~IsAncestor(headA, headR) /\ ~IsAncestor(headR, headA)
    /\ \E f \in Files :
          /\ TreeOf(headA)[f] # TreeOf(headR)[f]
          /\ TreeOf(headA)[f] # TreeOf(MergeBase)[f]
          /\ TreeOf(headR)[f] # TreeOf(MergeBase)[f]

\* C18 (as claimed): a pull that reaches the origin and finds conflicting
\* changes is answered with 409 Conflict.
C18_ConflictAnswers409 ==
    ( /\ Synced("pull")
      /\ syncResp.contacted
      /\ syncResp.err.cause \notin {ErrAuthenticationRequired, ErrTransport}
      /\ Conflicting )
    => syncResp.code = StatusConflict

\* ------------------------------------------------------ claims on SpecRoutes
\* C13 (as claimed): a request under /internal/api reaches a handler only
\* when its remote address is loopback; any other is refused.
C13_InternalIsLoopbackOnly ==
    routed.made =>
        /\ routed.handler # "" => IsLoopback(routed.remote)
        /\ ~IsLoopback(routed.remote) => routed.code = StatusForbidden

\* ------------------------------------------------------- claims on SpecRepos
\* C12 (as claimed): every record of the registry names a directory that
\* holds a git repository.
C12_OnlyGitRepositories ==
    \A i \in 1..Len(repoStore) : PathKind(repoStore[i].path) = "repository"

\* no two records of the sequence have the same path
UniquePaths(repos) ==
    \A i, j \in 1..Len(repos) : repos[i].path = repos[j].path => i = j

\* a step in which a goroutine loads the registry for an add request whose
\* path is tracked answers 409 and writes nothing
RefusesTracked ==
    \A p \in Procs :
        ( /\ procs[p].phase = "idle"
          /\ procs'[p].kind = "AddRepo"
          /\ procs'[p].path \in PathsOf(repoStore) )
        => /\ procs'[p].phase = "done"
           /\ procs'[p].code = StatusConflict
           /\ repoStore' = repoStore

\* C16: whatever the interleaving of the add and remove requests, no two
\* records of the registry share a path; an add request that finds its path
\* in the registry is answered 409 Conflict and leaves the registry as it is.
C16_UniquePaths ==
    [](UniquePaths(repoStore)) /\ [][RefusesTracked]_vars

\* one request added a path while another was refused it, and a third
\* added a second path
C16_Witness ==
    \E p, q, r \in Procs :
        /\ procs[p].kind = "AddRepo" /\ procs[p].code = StatusCreated
        /\ procs[q].kind = "AddRepo" /\ procs[q].code = StatusConflict
        /\ procs[q].path = procs[p].path
        /\ procs[r].kind = "AddRepo" /\ procs[r].code = StatusCreated
        /\ Len(repoStore) = 2

\* the two goroutines are the only ones that have served a request
OnlyTwo(p, q) ==
    /\ p # q
    /\ procs[p].phase = "done" /\ procs[q].phase = "done"
    /\ \A r \in Procs \ {p, q} : procs[r].phase = "idle"

\* C20 (as claimed): when two requests on the registry have both answered
\* with success, the registry reflects both: two added paths are both
\* tracked; an added path is tracked and the id of another record that was
\* removed is gone.
C20_NoLostUpdate ==
    \A p, q \in Procs :
        ( /\ OnlyTwo(p, q)
          /\ procs[p].kind = "AddRepo" /\ procs[p].code = StatusCreated )
        => /\ ( procs[q].kind = "AddRepo" /\ procs[q].code = StatusCreated )
                => {procs[p].path, procs[q].path} \subseteq PathsOf(repoStore)
           /\ ( /\ procs[q].kind = "RemoveRepo" /\ procs[q].code = StatusNoContent
                 /\ procs[q].id # procs[p].body[1].id )
                => /\ procs[p].path \in PathsOf(repoStore)
                   /\ procs[q].id \notin IdsOf(repoStore)

\* ------------------------------------------------------- claims on SpecUsers
\* the password hashes carried by the elements of a response body
HashesIn(body) ==
    {body[i].password_hash :
        i \in {j \in 1..Len(body) : "password_hash" \in DOMAIN body[j]}}

\* C17: no response carries a password hash: the answer to an add request has
\* no such field and every listed record has it empty; every stored record
\* keeps a hash, and the record of an added user verifies against the
\* password that was submitted.
C17_NoHashInResponses ==
    /\ \A p \in Procs : HashesIn(procs[p].body) \subseteq {NoHash}
    /\ \A i \in 1..Len(userStore) : userStore[i].password_hash # NoHash
    /\ \A p \in Procs :
          (procs[p].kind = "AddUser" /\ procs[p].code = StatusCreated) =>
              /\ "password_hash" \notin DOMAIN procs[p].body[1]
              /\ \A i \in 1..Len(userStore) :
                    userStore[i].id = procs[p].body[1].id =>
                        CompareHashAndPassword(userStore[i].password_hash, procs[p].pw)

\* a user was added and is still stored, and a list request has answered
\* with that record, its hash blanked
C17_Witness ==
    \E p, q \in Procs :
        /\ procs[p].kind = "AddUser" /\ procs[p].code = StatusCreated
        /\ procs[q].kind = "ListUsers" /\ procs[q].code = StatusOK
        /\ Len(procs[q].body) = 1
        /\ procs[q].body[1].id = procs[p].body[1].id
        /\ procs[q].body[1].password_hash = NoHash
        /\ Len(userStore) = 1
        /\ CompareHashAndPassword(userStore[1].password_hash, procs[p].pw)

\* -------------------------------------------------------- claims on SpecRace
\* C19 (as claimed): when a stage request and another mutation of the same
\* repository have both answered with success, be it a commit or a stage or
\* unstage of another file, neither change of the index is lost: the staged
\* file is in the index as it is on disk, and a file the other request
\* unstaged is in the index as it is in HEAD.
C19_NoLostIndexChange ==
    \A p, q \in Procs :
        ( /\ OnlyTwo(p, q)
          /\ procs[p].kind = "Stage" /\ procs[p].code = StatusOK
          /\ procs[q].code = StatusOK
          /\ \/ procs[q].kind = "Commit"
             \/ /\ procs[q].kind \in {"Stage", "Unstage"}
                /\ procs[q].path # procs[p].path )
        => /\ index[procs[p].path] = worktree[procs[p].path]
           /\ procs[q].kind = "Unstage"
                 => index[procs[q].path] = headTree[procs[q].path]

\* ------------------------------------------- further claims on SpecSync
\* this step serves the operation again, directly after it was answered with
\* success, and the origin is reached with credentials at hand
ServedAgain(op) ==
    /\ syncResp.op = op /\ syncResp.code = StatusOK
    /\ syncResp'.op = op /\ syncResp'.code # StatusNotFound
    /\ syncResp'.contacted
    /\ syncResp'.err.cause \notin {ErrAuthenticationRequired, ErrTransport}

\* C21 (as claimed): a push served directly after a successful push, and a
\* pull served directly after a successful pull, nothing having changed in
\* between, is answered with success again and moves no ref.
C21_PushPullIdempotent ==
    [][\A op \in {"push", "pull"} :
          ServedAgain(op) =>
              /\ syncResp'.code = StatusOK
              /\ UNCHANGED <<headA, trackA, headR>>]_vars

\* ------------------------------------------ further claims on SpecIndex
\* the last request of the log
LastServed == log[Len(log)]

\* this step serves a commit request with a message for the registered
\* repository
CommitServed ==
    /\ log' # log /\ log' # <<>>
    /\ log'[Len(log')].op = "commit"
    /\ log'[Len(log')].msg # ""
    /\ log'[Len(log')].code # StatusNotFound

\* C22: a commit request with a message, served when the index is HEAD's
\* tree, fails: no commit object is created and HEAD stays where it was.
C22_NothingToCommit ==
    [][(CommitServed /\ index = headTree) =>
          /\ log'[Len(log')].code = StatusInternalServerError
          /\ UNCHANGED <<parents, ncommits, headA, headTree, index, worktree>>]_vars

\* a commit with a message was refused in a repository that has a commit and
\* an unstaged change, nothing being staged
C22_Witness ==
    /\ log # <<>>
    /\ LastServed.op = "commit" /\ LastServed.msg # ""
    /\ LastServed.code = StatusInternalServerError
    /\ headA # 0
    /\ index = headTree
    /\ worktree # index

\* this step serves a commit request with success
CommitSucceeds == CommitServed /\ log'[Len(log')].code = StatusOK

\* the path is staged: its staging axis is neither unmodified nor untracked
IsStaged(s) == s.has /\ s.Staging \notin {Unmodified, Untracked}

\* C23: a successful commit makes HEAD a new commit on top of the previous
\* HEAD that records the index; index and worktree stay as they are; every
\* path that was staged has staging axis unmodified afterwards, and every path
\* with an unstaged change or untracked keeps its worktree axis, so that the
\* status is not clean when there is such a path.
C23_CommitRecordsIndex ==
    [][CommitSucceeds =>
          LET before == StatusOf(headTree, index, worktree)
              after == StatusOf(headTree', index', worktree')
          IN /\ ncommits' = ncommits + 1 /\ headA' = ncommits'
             /\ parents'[headA'] = (IF headA = 0 THEN <<>> ELSE <<headA>>)
             /\ headTree' = index
             /\ UNCHANGED <<index, worktree>>
             /\ \A f \in Files :
                   /\ IsStaged(before[f]) => after[f].Staging = Unmodified
                   /\ (before[f].has /\ before[f].Worktree # Unmodified) =>
                         /\ after[f].has
                         /\ after[f].Worktree = before[f].Worktree
                         /\ ~IsClean(after)]_vars

\* a staged path was committed on top of the first commit while another
\* change stayed in the worktree
C23_Witness ==
    /\ LastTwo("stage", "commit")
    /\ log[1].code = StatusOK /\ log[2].code = StatusOK
    /\ headA = ncommits /\ parents[headA] # <<>>
    /\ index = headTree
    /\ worktree # index

\* C24: a status request on a repository whose HEAD does not resolve is
\* answered with an error and carries no snapshot: no Clean value, no counts,
\* no entries.
C24_NoHeadNoSnapshot ==
    (st.fresh /\ headA = 0) =>
        /\ ~st.ok
        /\ DOMAIN st = {"ok", "fresh"}

\* a status was requested on a repository without commits in which nothing
\* differs between HEAD, index and worktree
C24_Witness ==
    /\ st.fresh /\ ~st.ok
    /\ headA = 0
    /\ index = headTree /\ worktree = index

\* ------------------------------------------- further claims on SpecGraph
\* C25: a status request, answered with a snapshot or with an error, changes
\* nothing: the commits, HEAD, the remote-tracking ref and the origin's
\* branch, HEAD's tree, the index, the worktree files, the files on disk and
\* the registry are after it what they were before.
C25_StatusIsReadOnly ==
    [][st'.fresh =>
          UNCHANGED <<graphVars, copyVars, exists, repoPath, repoStore,
                      commitTree, lock>>]_vars

\* a status was served on a history that has diverged from a
\* remote-tracking ref the origin has since left behind
C25_Witness ==
    /\ st.fresh /\ st.ok
    /\ st.Ahead > 0 /\ st.Behind > 0
    /\ trackA # headR

\* ------------------------------------------------ claims on SpecResolve
\* this step serves an engine request for an id the registry does not hold
ServesUnknown == lookup' # lookup /\ lookup'.id \notin IdsOf(repoStore)

\* in this step a remove request looks up an id the registry does not hold,
\* is answered 404 and leaves the registry as it is
RemoveUnknownRefused ==
    \A p \in Procs :
        ( /\ procs[p].phase = "idle"
          /\ procs'[p].kind = "RemoveRepo"
          /\ procs'[p].id \notin IdsOf(repoStore) )
        => /\ procs'[p].phase = "done"
           /\ procs'[p].code = StatusNotFound
           /\ UNCHANGED repoStore

\* C26 (as claimed): every engine request for an id that the registry does
\* not hold when the request is served is answered not-found and makes no
\* capability call; a remove request for such an id is answered not-found
\* and leaves the registry unchanged.
C26_UnknownIdIsNotFound ==
    [][/\ ServesUnknown =>
              (lookup'.code = StatusNotFound /\ lookup'.call = <<>>)
       /\ RemoveUnknownRefused]_vars

\* C26 (amended): every engine request for an id that the registry does not
\* hold when the request is served makes no capability call; it is answered
\* not-found, unless it is a stage, unstage or commit request whose body does
\* not decode, a file or diff request with an empty file parameter or a
\* commit request with an empty message, which is answered 400 before the id
\* is resolved; the part on remove requests as claimed.
C26_UnknownIdMakesNoCall ==
    [][/\ ServesUnknown =>
              /\ lookup'.call = <<>>
              /\ lookup'.code = (IF RejectedFirst(lookup'.op, lookup'.arg)
                                 THEN StatusBadRequest ELSE StatusNotFound)
       /\ RemoveUnknownRefused]_vars

\* a stage request with a file was answered not-found for the id of a
\* repository that a completed remove request has taken off the registry
C26_Witness ==
    /\ \E p \in Procs :
          /\ procs[p].kind = "RemoveRepo" /\ procs[p].id = Uuid(0)
          /\ procs[p].phase = "done" /\ procs[p].code = StatusNoContent
    /\ Uuid(0) \in IdsOf(StartRepos)
    /\ repoStore = <<>>
    /\ lookup.op = "stage" /\ lookup.arg = "given"
    /\ lookup.id = Uuid(0)
    /\ lookup.code = StatusNotFound /\ lookup.call = <<>>

\* this step serves the request with success
ServedOK(op) ==
    /\ log' # log /\ log' # <<>>
    /\ log'[Len(log')].op = op
    /\ log'[Len(log')].code = StatusOK

\* C27: a successful unstage of f sets the index entry of f to HEAD's and
\* changes nothing else: not the index entry of another path, not the
\* content of any file of the worktree, f included, and not HEAD.
C27_UnstageTouchesOneEntry ==
    [][ServedOK("unstage") =>
          LET f == log'[Len(log')].file
          IN /\ index'[f] = headTree[f]
             /\ \A g \in Files \ {f} : index'[g] = index[g]
             /\ UNCHANGED <<worktree, headTree, graphVars>>]_vars

\* a path was unstaged whose worktree copy differs from HEAD, while another
\* path is still staged
C27_Witness ==
    /\ log # <<>>
    /\ LastServed.op = "unstage" /\ LastServed.code = StatusOK
    /\ LET f == LastServed.file
       IN /\ index[f] = headTree[f]
          /\ worktree[f] # headTree[f]
          /\ \E g \in Files \ {f} : index[g] # headTree[g]

\* C28: a successful unstage-all makes the index HEAD's tree and leaves the
\* worktree files as they are, so that no path is staged afterwards; a status
\* served next, also after stage-all then unstage-all, has no staged entry:
\* every staging axis is unmodified or untracked.
C28_UnstageAllLeavesNothingStaged ==
    /\ [][ServedOK("unstage-all") =>
             /\ index' = headTree
             /\ UNCHANGED <<worktree, headTree, graphVars>>
             /\ \A f \in Files :
                   ~IsStaged(StatusOf(headTree', index', worktree')[f])]_vars
    /\ []((log # <<>> /\ LastServed.op = "unstage-all"
             /\ LastServed.code = StatusOK /\ st.fresh /\ st.ok) =>
          \A f \in Files :
              /\ ~IsStaged(st.Worktree[f])
              /\ st.Worktree[f].Staging \in {Unmodified, Untracked})

\* a status served after stage-all and unstage-all in a repository with a
\* new file and a modified one: both are unstaged changes again
C28_Witness ==
    /\ LastTwo("stage-all", "unstage-all")
    /\ log[1].code = StatusOK /\ log[2].code = StatusOK
    /\ st.fresh /\ st.ok
    /\ index = headTree
    /\ \E f \in Files : headTree[f] = 0 /\ worktree[f] # 0
    /\ \E f \in Files : headTree[f] # 0 /\ worktree[f] # headTree[f]

\* C29: a successful stage-all puts every new, modified and removed path of
\* the worktree into the index and leaves the worktree files as they are; a
\* status served next has no entry whose worktree axis is other than
\* unmodified.
C29_StageAllStagesEverything ==
    /\ [][ServedOK("stage-all") =>
             /\ index' = worktree
             /\ UNCHANGED <<worktree, headTree, graphVars>>
             /\ \A f \in Files :
                   StatusOf(headTree', index', worktree')[f].Worktree = Unmodified]_vars
    /\ []((log # <<>> /\ LastServed.op = "stage-all"
             /\ LastServed.code = StatusOK /\ st.fresh /\ st.ok) =>
          \A f \in Files :
              st.Worktree[f].has => st.Worktree[f].Worktree = Unmodified)

\* a status served after stage-all in a repository where a file of HEAD was
\* removed and a new file written: both changes are staged
C29_Witness ==
    /\ log # <<>>
    /\ LastServed.op = "stage-all" /\ LastServed.code = StatusOK
    /\ st.fresh /\ st.ok
    /\ index = worktree
    /\ \E f \in Files : headTree[f] # 0 /\ worktree[f] = 0
    /\ \E f \in Files : headTree[f] = 0 /\ worktree[f] # 0
    /\ \A f \in Files : st.Worktree[f].has /\ IsStaged(st.Worktree[f])

\* ---------------------------------------------------- claims on SpecWalk
\* C30: the walk of countCommitsBetween ends on every commit graph: no commit
\* is yielded twice; a walk that meets its target stops there, having counted
\* the commits before it; a walk that does not meet it ends when every
\* ancestor of the start has been yielded once; and every walk that has
\* started ends.
C30_WalkTerminates ==
    /\ [](\A c \in Commits : walk.visits[c] <= 1)
    /\ [](walk.on = "done" =>
             /\ walk.count = countCommitsBetween(walk.from, walk.to)
             /\ walk.to \in walk.seen => walk.count = Cardinality(walk.seen) - 1
             /\ (walk.to \notin walk.seen /\ walk.from # walk.to) =>
                   /\ walk.stack = <<>>
                   /\ walk.seen = Reach(walk.from)
                   /\ walk.count = Cardinality(Reach(walk.from)))
    /\ ((walk.on = "walking") ~> (walk.on = "done"))

\* a walk over a history with a merge ended without meeting its target
C30_Witness ==
    /\ walk.on = "done"
    /\ walk.to \notin walk.seen
    /\ \E c \in walk.seen : Len(parents[c]) = 2
    /\ walk.count > 2

====
